---- MODULE Spec2Model ----
(***************************************************************************)
(* A model of ASTeX: the tokenizer and tree builder of astex/ast.py, the   *)
(* generic tree filter GroupNode.filter, and the macro engine of           *)
(* astex/demacro.py.                                                       *)
(*                                                                         *)
(* Text is a TLA+ string; offsets are 0-based as in Python, so text[a:b]   *)
(* is Slice(text, a, b).  A node is a record with the fields of the Python *)
(* classes; `parent' records whether the node's parent reference is set.   *)
(***************************************************************************)
EXTENDS Integers, Sequences, FiniteSets, TLC

(***************************************************************************)
(* Characters and character classes of the regular expressions.            *)
(***************************************************************************)
At(text, i) == IF i >= 0 /\ i < Len(text) THEN SubSeq(text, i + 1, i + 1) ELSE ""
Slice(text, a, b) == SubSeq(text, a + 1, b)

\* [a-zA-Z@]
Letters ==
  {"a","b","c","d","e","f","g","h","i","j","k","l","m","n","o","p","q","r","s","t","u","v","w","x","y","z",
   "A","B","C","D","E","F","G","H","I","J","K","L","M","N","O","P","Q","R","S","T","U","V","W","X","Y","Z","@"}
\* \d, restricted to the ASCII digits
Digits == {"0","1","2","3","4","5","6","7","8","9"}
\* \s, restricted to ASCII white space
Spaces == {" ", "\t", "\n", "\r", "\f"}

DigitChars == <<"0","1","2","3","4","5","6","7","8","9">>
\* int(c) of a digit character and str(k) of a one-digit number
int(c) == (CHOOSE k \in 1..10 : DigitChars[k] = c) - 1
str_int(k) == DigitChars[k + 1]

\* The first offset j >= i at which the run of characters of S that starts at i ends.
RunEnd(text, i, S) ==
  CHOOSE j \in i..Len(text) :
    /\ \A k \in i..(j - 1) : At(text, k) \in S
    /\ j = Len(text) \/ At(text, j) \notin S
\* The same for the run of characters matched by `.' (anything but a newline).
DotRunEnd(text, i) ==
  CHOOSE j \in i..Len(text) :
    /\ \A k \in i..(j - 1) : At(text, k) # "\n"
    /\ j = Len(text) \/ At(text, j) = "\n"

(***************************************************************************)
(* Tokens and the six patterns.  re_match gives the end offset of the      *)
(* match of a pattern that starts exactly at offset i, or -1.              *)
(***************************************************************************)
Patterns == <<"TOKEN_COMMENT", "TOKEN_COMMAND", "TOKEN_PARAMETER",
              "TOKEN_LCB", "TOKEN_RCB", "TOKEN_WHITESPACE">>

Token(pattern, start, end, groups) ==
  [pattern |-> pattern, start |-> start, end |-> end, groups |-> groups]
NoMatch(start, end) == Token("NoMatch", start, end, <<>>)
NoToken == Token("None", -1, -1, <<>>)

re_match(pattern, text, i) ==
  CASE pattern = "TOKEN_COMMENT" ->
         IF At(text, i) = "%"
         THEN LET e == DotRunEnd(text, i + 1)
              IN  IF At(text, e) = "\n" THEN e + 1 ELSE e
         ELSE -1
    [] pattern = "TOKEN_COMMAND" ->
         IF At(text, i) = "\\" /\ i + 1 < Len(text)
         THEN LET e == RunEnd(text, i + 1, Letters)
              IN  IF e - (i + 1) >= 2 THEN e
                  ELSE IF At(text, i + 1) # "\n" THEN i + 2 ELSE -1
         ELSE -1
    [] pattern = "TOKEN_PARAMETER" ->
         IF At(text, i) = "#"
         THEN LET e == RunEnd(text, i, {"#"})
              IN  IF At(text, e) \in Digits THEN e + 1 ELSE -1
         ELSE -1
    [] pattern = "TOKEN_LCB" ->
         IF At(text, i) = "{" /\ At(text, i - 1) # "\\" THEN i + 1 ELSE -1
    [] pattern = "TOKEN_RCB" ->
         IF At(text, i) = "}" /\ At(text, i - 1) # "\\" THEN i + 1 ELSE -1
    [] pattern = "TOKEN_WHITESPACE" ->
         IF At(text, i) \in Spaces /\ At(text, i - 1) # "\\"
         THEN RunEnd(text, i, Spaces)
         ELSE -1
    \* matchers that are not among the six, named by their regular expression
    [] pattern = "a*" -> RunEnd(text, i, {"a"})
    [] pattern = "a+" -> IF At(text, i) = "a" THEN RunEnd(text, i, {"a"}) ELSE -1
    [] pattern = "ab" -> IF At(text, i) = "a" /\ At(text, i + 1) = "b" THEN i + 2 ELSE -1
    [] pattern = "b" -> IF At(text, i) = "b" THEN i + 1 ELSE -1

\* m.groups() of the match of pattern over [start, end)
re_groups(pattern, text, start, end) ==
  CASE pattern = "TOKEN_COMMENT" -> <<Slice(text, start + 1, end)>>
    [] pattern = "TOKEN_COMMAND" -> <<Slice(text, start + 1, end)>>
    [] pattern = "TOKEN_PARAMETER" ->
         <<Slice(text, start, end - 1), Slice(text, end - 1, end)>>
    [] OTHER -> <<>>

\* pattern.search(text, pos): the leftmost match that starts at or after pos
re_search(pattern, text, pos) ==
  LET starts == {i \in pos..Len(text) : re_match(pattern, text, i) >= 0}
  IN  IF starts = {} THEN NoToken
      ELSE LET s == CHOOSE i \in starts : \A j \in starts : i <= j
               e == re_match(pattern, text, s)
           IN  Token(pattern, s, e, re_groups(pattern, text, s, e))

_update_token(text, pos, t) ==
  IF t.start >= pos THEN t ELSE re_search(t.pattern, text, pos)

\* list(filter(None, ...))
RECURSIVE FilterNone(_)
FilterNone(ts) ==
  IF ts = <<>> THEN <<>>
  ELSE IF Head(ts).pattern = "None" THEN FilterNone(Tail(ts))
       ELSE <<Head(ts)>> \o FilterNone(Tail(ts))

\* min(tokens, key=lambda t: t.start): the first token of least start
MinToken(tokens) ==
  LET k == CHOOSE k \in 1..Len(tokens) :
             /\ \A j \in 1..Len(tokens) : tokens[k].start <= tokens[j].start
             /\ \A j \in 1..(k - 1) : tokens[j].start > tokens[k].start
  IN  tokens[k]

RECURSIVE tokenize_loop(_, _, _, _)
tokenize_loop(text, tokens, i, acc) ==
  IF tokens # <<>> /\ i < Len(text)
  THEN LET token == MinToken(tokens)
           acc1 == IF i < token.start THEN Append(acc, NoMatch(i, token.start)) ELSE acc
           toks == FilterNone([k \in 1..Len(tokens) |->
                                 _update_token(text, token.end, tokens[k])])
       IN  tokenize_loop(text, toks, token.end, Append(acc1, token))
  ELSE IF i < Len(text) THEN Append(acc, NoMatch(i, Len(text))) ELSE acc

tokenize(text) ==
  tokenize_loop(text,
                FilterNone([k \in 1..Len(Patterns) |->
                              re_search(Patterns[k], text, 0)]),
                0, <<>>)

(***************************************************************************)
(* The generator Tokenizer.tokenize returns, statement by statement: it    *)
(* is at "start" before the first next(), at "loop" before the test of the *)
(* while loop, at "nomatch", "token" or "last" when suspended at one of    *)
(* the three yields (`yielded' is what it handed out), at "stop" when      *)
(* exhausted.  `token' is the match the loop chose.                        *)
(***************************************************************************)
Generator(text, patterns) ==
  [text |-> text, patterns |-> patterns, tokens |-> <<>>, i |-> 0, at |-> "start",
   token |-> NoToken, yielded |-> NoToken]

\* tokens = list(filter(None, map(lambda p: _update_token(0, -1, p, None), self.patterns)))
Started(g) ==
  [g EXCEPT !.tokens = FilterNone([k \in 1..Len(g.patterns) |->
                                     re_search(g.patterns[k], g.text, 0)]),
            !.i = 0, !.at = "loop"]

\* token = min(tokens, key=lambda t: t.start) and the yield that follows
Chosen(g, token) ==
  IF g.i < token.start
  THEN [g EXCEPT !.token = token, !.yielded = NoMatch(g.i, token.start), !.at = "nomatch"]
  ELSE [g EXCEPT !.token = token, !.yielded = token, !.at = "token"]

\* The test of the while loop, up to the next yield or the end
Looped(g) ==
  IF g.tokens # <<>> /\ g.i < Len(g.text) THEN Chosen(g, MinToken(g.tokens))
  ELSE IF g.i < Len(g.text)
  THEN [g EXCEPT !.yielded = NoMatch(g.i, Len(g.text)), !.at = "last"]
  ELSE [g EXCEPT !.at = "stop"]

\* The statements after a yield, up to the next yield or the test of the loop
Resumed(g) ==
  CASE g.at = "nomatch" -> [g EXCEPT !.yielded = g.token, !.at = "token"]
    [] g.at = "token" ->
         [g EXCEPT !.i = g.token.end,
                   !.tokens = FilterNone([k \in 1..Len(g.tokens) |->
                                            _update_token(g.text, g.token.end, g.tokens[k])]),
                   !.at = "loop"]
    [] g.at = "last" -> [g EXCEPT !.at = "stop"]

(***************************************************************************)
(* Nodes.                                                                  *)
(***************************************************************************)
Node(type, data) ==
  [type |-> type, data |-> data, children |-> <<>>,
   num_hashes |-> 0, float |-> FALSE, param |-> 0, parent |-> FALSE]
None == Node("None", "")
TextNode(data) == Node("TextNode", data)
WhitespaceNode(data) == Node("WhitespaceNode", data)
CommandNode(data) == Node("CommandNode", data)
CommentNode(data) == Node("CommentNode", data)
ParameterNode(num_hashes, param) ==
  [Node("ParameterNode", "") EXCEPT !.num_hashes = num_hashes, !.param = param]
GroupNode == Node("GroupNode", "")
BracketNode == Node("BracketNode", "")

IsGroup(n) == n.type \in {"GroupNode", "BracketNode"}

\* GroupNode.add
add(group, child) ==
  [group EXCEPT !.children = Append(@, [child EXCEPT !.parent = TRUE])]

\* GroupNode.take
RECURSIVE AddAll(_, _)
AddAll(group, nodes) ==
  IF nodes = <<>> THEN group ELSE AddAll(add(group, Head(nodes)), Tail(nodes))
take(group, node) ==
  IF IsGroup(node) THEN AddAll(group, node.children) ELSE add(group, node)

\* '#' * k
RECURSIVE Hashes(_)
Hashes(k) == IF k <= 0 THEN "" ELSE "#" \o Hashes(k - 1)

\* __str__ of every node class
RECURSIVE str(_)
RECURSIVE JoinStr(_)
JoinStr(nodes) == IF nodes = <<>> THEN "" ELSE str(Head(nodes)) \o JoinStr(Tail(nodes))
str(n) ==
  CASE n.type = "CommandNode" -> "\\" \o n.data
    [] n.type = "CommentNode" -> "%" \o n.data
    [] n.type = "ParameterNode" -> Hashes(n.num_hashes) \o str_int(n.param)
    [] n.type = "GroupNode" -> JoinStr(n.children)
    [] n.type = "BracketNode" -> "{" \o JoinStr(n.children) \o "}"
    [] OTHER -> n.data

\* str(n) raises TypeError when it multiplies '#' by a float hash count
RECURSIVE str_raises(_)
str_raises(n) ==
  \/ n.type = "ParameterNode" /\ n.float
  \/ \E k \in 1..Len(n.children) : str_raises(n.children[k])

(***************************************************************************)
(* to_ast.  `open' is the chain of groups from the root to the cursor      *)
(* `curr' (its last element); a bracket was added to its parent when it    *)
(* was opened, so closing it puts the finished group at the end of the     *)
(* parent's children.                                                      *)
(***************************************************************************)
ErrUnbalanced == "Number of {s and }s don't match or the order is incorrect"
ErrEnd == "Unexpected end of tokens"
ErrName == "Incorrectly formatted command name"
ErrArgs == "Incorrectly formatted number of arguments"
ErrHashes == "Number of hashes in parameter must be power of 2"
ErrNewcommand == "Newcommand used for existing command"
ErrNewenvironment == "Newenvironment used for existing environment"
ErrRecursion == "Max recursion level reached"
ErrIndex == "IndexError: list index out of range"
ErrAttribute == "AttributeError: 'NoneType' object has no attribute 'data'"
ErrType == "TypeError: 'NoneType' object is not subscriptable"
ErrFloat == "TypeError: can't multiply sequence by non-int of type 'float'"
NoError == "None"

\* The node a token adds to the cursor (no-match, white space, parameter, comment, command)
TokenNode(text, t) ==
  CASE t.pattern = "NoMatch" -> TextNode(Slice(text, t.start, t.end))
    [] t.pattern = "TOKEN_WHITESPACE" -> WhitespaceNode(Slice(text, t.start, t.end))
    [] t.pattern = "TOKEN_PARAMETER" -> ParameterNode(Len(t.groups[1]), int(t.groups[2]))
    [] t.pattern = "TOKEN_COMMENT" -> CommentNode(t.groups[1])
    [] t.pattern = "TOKEN_COMMAND" -> CommandNode(t.groups[1])

\* Closes the groups of `open' into their parents: the tree below open[1].
RECURSIVE Fold(_)
Fold(open) ==
  IF Len(open) = 1 THEN open[1]
  ELSE Fold(Append(SubSeq(open, 1, Len(open) - 2),
                   add(open[Len(open) - 1], open[Len(open)])))

RECURSIVE to_ast_loop(_, _, _)
to_ast_loop(text, tokens, open) ==
  IF tokens = <<>>
  THEN [error |-> NoError,
        curr |-> [open[Len(open)] EXCEPT !.parent = (Len(open) > 1)],
        depth |-> Len(open) - 1,
        root |-> Fold(open)]
  ELSE LET t == Head(tokens)
           d == Len(open)
       IN  IF t.pattern = "TOKEN_LCB"
           THEN to_ast_loop(text, Tail(tokens), Append(open, BracketNode))
           ELSE IF t.pattern = "TOKEN_RCB"
           THEN IF open[d].type # "BracketNode"
                THEN [error |-> ErrUnbalanced, curr |-> None, depth |-> 0, root |-> None]
                ELSE to_ast_loop(text, Tail(tokens),
                                 Append(SubSeq(open, 1, d - 2), add(open[d - 1], open[d])))
           ELSE to_ast_loop(text, Tail(tokens),
                            [open EXCEPT ![d] = add(@, TokenNode(text, t))])

to_ast(text) == to_ast_loop(text, tokenize(text), <<GroupNode>>)

(***************************************************************************)
(* The lookahead helpers of ast.py and demacro.py.  A queue (deque) is a   *)
(* sequence whose head is its left end; every helper returns the queue it  *)
(* leaves behind together with its result and the error it raised.         *)
(***************************************************************************)
\* A local variable: Body of the value it is assigned
Bind(value, Body(_)) == Body(value)

\* read_next that hands out a text node whole
RECURSIVE ReadNextWhole(_, _)
ReadNextWhole(it, error) ==
  IF it = <<>>
  THEN [n |-> None, it |-> <<>>, error |-> IF error THEN ErrEnd ELSE NoError]
  ELSE IF Head(it).type \in {"WhitespaceNode", "CommentNode"}
  THEN ReadNextWhole(Tail(it), error)
  ELSE [n |-> Head(it), it |-> Tail(it), error |-> NoError]

RECURSIVE read_next(_, _)
read_next(it, error) ==
  IF it = <<>>
  THEN [n |-> None, it |-> <<>>, error |-> IF error THEN ErrEnd ELSE NoError]
  ELSE LET n == Head(it)
       IN  IF n.type \in {"WhitespaceNode", "CommentNode"}
           THEN read_next(Tail(it), error)
           ELSE IF n.type = "TextNode" /\ Len(n.data) > 1
           THEN [n |-> TextNode(Slice(n.data, 0, 1)),
                 it |-> <<[TextNode(Slice(n.data, 1, Len(n.data)))
                             EXCEPT !.parent = n.parent]>> \o Tail(it),
                 error |-> NoError]
           ELSE [n |-> n, it |-> Tail(it), error |-> NoError]

_filter_children(node, filter_ws) ==
  IF IsGroup(node)
  THEN LET c == SelectSeq(node.children,
                          LAMBDA x : x.type # "CommentNode"
                                     /\ (x.type # "WhitespaceNode" \/ ~filter_ws))
       IN  IF Len(c) = 1 THEN c[1] ELSE None
  ELSE None

\* `_filter_children(n) or n'
FilterChildrenOr(node, filter_ws) ==
  Bind(_filter_children(node, filter_ws), LAMBDA c :
    IF c.type # "None" THEN c ELSE node)

IsText(n, s) == n.type = "TextNode" /\ n.data = s

RECURSIVE ReadUntilLoop(_, _)
ReadUntilLoop(it, node) ==
  Bind(read_next(it, TRUE), LAMBDA r :
    IF r.error # NoError THEN [node |-> None, it |-> r.it, error |-> r.error]
    ELSE IF IsText(r.n, "]") THEN [node |-> node, it |-> r.it, error |-> NoError]
    ELSE ReadUntilLoop(r.it, add(node, r.n)))
_read_until_end_bracket(it) == ReadUntilLoop(it, GroupNode)

_read_command_name(it) ==
  Bind(read_next(it, TRUE), LAMBDA r1 :
  Bind(IF r1.error = NoError /\ IsText(r1.n, "*") THEN read_next(r1.it, TRUE) ELSE r1,
       LAMBDA r2 :
    IF r2.error # NoError THEN [name |-> "", it |-> r2.it, error |-> r2.error]
    ELSE Bind(FilterChildrenOr(r2.n, TRUE), LAMBDA n :
           IF n.type = "CommandNode" THEN [name |-> n.data, it |-> r2.it, error |-> NoError]
           ELSE [name |-> "", it |-> r2.it, error |-> ErrName])))

\* The argument count, or -1 for "Incorrectly formatted number of arguments".
\* int() is taken of a text of one character: read_next hands texts out one character at a time.
_extract_arguments(node) ==
  Bind(FilterChildrenOr(node, TRUE), LAMBDA n :
    IF n.type = "TextNode" /\ Len(n.data) = 1 /\ n.data \in Digits
    THEN int(n.data)
    ELSE -1)

_extract_optional_argument(node) ==
  Bind(_filter_children(node, FALSE), LAMBDA n :
    take(GroupNode, IF n.type = "BracketNode" THEN n ELSE node))

BracketArgs(args, default, temp, it, error) ==
  [args |-> args, default |-> default, temp |-> temp, it |-> it, error |-> error]

\* The second half of _get_bracket_args: the optional default and the node after it.
GetDefault(args, temp, it) ==
  IF IsText(temp, "[")
  THEN Bind(_read_until_end_bracket(it), LAMBDA b :
         IF b.error # NoError THEN BracketArgs(0, None, None, b.it, b.error)
         ELSE Bind(read_next(b.it, TRUE), LAMBDA r :
                IF r.error # NoError THEN BracketArgs(0, None, None, r.it, r.error)
                ELSE BracketArgs(args, _extract_optional_argument(b.node), r.n, r.it,
                                 NoError)))
  ELSE BracketArgs(args, None, temp, it, NoError)

_get_bracket_args(it) ==
  Bind(read_next(it, TRUE), LAMBDA r0 :
    IF r0.error # NoError THEN BracketArgs(0, None, None, r0.it, r0.error)
    ELSE IF IsText(r0.n, "[")
    THEN Bind(_read_until_end_bracket(r0.it), LAMBDA b :
           IF b.error # NoError THEN BracketArgs(0, None, None, b.it, b.error)
           ELSE Bind(_extract_arguments(b.node), LAMBDA a :
                  IF a < 0 THEN BracketArgs(0, None, None, b.it, ErrArgs)
                  ELSE Bind(read_next(b.it, TRUE), LAMBDA r :
                         IF r.error # NoError
                         THEN BracketArgs(0, None, None, r.it, r.error)
                         ELSE GetDefault(a, r.n, r.it))))
    ELSE GetDefault(0, r0.n, r0.it))

(***************************************************************************)
(* GroupNode.copy, and GroupNode.filter under the rule _do_replace.        *)
(***************************************************************************)
MAX_RECURSE_LEVEL == 256

RECURSIVE copy(_)
RECURSIVE CopyAll(_, _)
CopyAll(new, nodes) ==
  IF nodes = <<>> THEN new ELSE CopyAll(add(new, copy(Head(nodes))), Tail(nodes))
copy(n) == IF IsGroup(n) THEN CopyAll(Node(n.type, ""), n.children) ELSE n

\* params[i] for a Python list index i, which counts from the end when negative
ListIndex(params, i) ==
  IF i >= 0 /\ i < Len(params) THEN i + 1
  ELSE IF i < 0 /\ -i <= Len(params) THEN Len(params) + i + 1
  ELSE 0

\* _do_filter(node, level) with filter_func = _do_replace: children is the
\* queue, node the group being rebuilt
RECURSIVE ReplaceFilter(_, _, _, _)
ReplaceFilter(node, children, params, level) ==
  IF level > MAX_RECURSE_LEVEL THEN [node |-> None, error |-> ErrRecursion]
  ELSE IF children = <<>> THEN [node |-> node, error |-> NoError]
  ELSE LET n == Head(children)
       IN  IF n.type = "ParameterNode"
           THEN IF n.num_hashes = 1
                THEN LET k == ListIndex(params, n.param - 1)
                     IN  IF k = 0 THEN [node |-> None, error |-> ErrIndex]
                         ELSE ReplaceFilter(take(node, copy(params[k])),
                                            Tail(children), params, level)
                ELSE IF n.num_hashes % 2 # 0
                THEN [node |-> None, error |-> ErrHashes]
                ELSE ReplaceFilter(add(node, [n EXCEPT !.num_hashes = @ \div 2,
                                                       !.float = TRUE]),
                                   Tail(children), params, level)
           ELSE IF IsGroup(n)
           THEN LET sub == ReplaceFilter([n EXCEPT !.children = <<>>], n.children,
                                         params, level + 1)
                IN  IF sub.error # NoError THEN sub
                    ELSE ReplaceFilter(add(node, sub.node), Tail(children), params, level)
           ELSE ReplaceFilter(add(node, n), Tail(children), params, level)

_replace_parameters(root, params) ==
  Bind(copy(root), LAMBDA obj :
    ReplaceFilter([obj EXCEPT !.children = <<>>], obj.children, params, 0))

(***************************************************************************)
(* _expand_macro.  A macro is the dictionary {'args', 'default', 'body'};  *)
(* the bodies registered here are templates (GroupNode), not callables.    *)
(***************************************************************************)
Macro(args, default, body) == [args |-> args, default |-> default, body |-> body]

\* for _ in range(args): tokens.append(read_next(it))
RECURSIVE ReadArgs(_, _, _)
ReadArgs(it, args, tokens) ==
  IF args <= 0 THEN [tokens |-> tokens, it |-> it, error |-> NoError]
  ELSE Bind(read_next(it, TRUE), LAMBDA r :
         IF r.error # NoError THEN [tokens |-> tokens, it |-> r.it, error |-> r.error]
         ELSE ReadArgs(r.it, args - 1, Append(tokens, r.n)))

\* The argument read from `[' to `]': temp, or the one BracketNode it holds
BracketedArg(it) ==
  Bind(_read_until_end_bracket(it), LAMBDA b :
    IF b.error # NoError THEN [tokens |-> <<>>, it |-> b.it, error |-> b.error]
    ELSE Bind(_filter_children(b.node, FALSE), LAMBDA temp2 :
           [tokens |-> <<IF temp2.type = "BracketNode" THEN temp2 ELSE b.node>>,
            it |-> b.it, error |-> NoError]))

\* A slip: the node that was looked at is not put back when the default is used
ReadFirstArgNoPutBack(it, data) ==
  Bind(read_next(it, FALSE), LAMBDA r :
    IF IsText(r.n, "[")
    THEN BracketedArg(r.it)
    ELSE [tokens |-> <<data.default>>, it |-> r.it, error |-> NoError])

\* The first argument of a macro that has a default
ReadFirstArg(it, data) ==
  Bind(read_next(it, FALSE), LAMBDA r :
    IF IsText(r.n, "[")
    THEN BracketedArg(r.it)
    ELSE [tokens |-> <<data.default>>,
          it |-> IF r.n.type # "None" THEN <<r.n>> \o r.it ELSE r.it,
          error |-> NoError])

\* c.parent = parent for the children of the expansion
SetParent(nodes) == [k \in 1..Len(nodes) |-> [nodes[k] EXCEPT !.parent = TRUE]]

\* A slip: the children are pushed in body order, so the queue holds them reversed
PushFrontForward(nodes, it) ==
  [k \in 1..Len(nodes) |-> SetParent(nodes)[Len(nodes) + 1 - k]] \o it

\* for c in reversed(temp.children): c.parent = parent; it.appendleft(c)
PushFront(nodes, it) == SetParent(nodes) \o it

_expand_macro(it, data) ==
  Bind(IF data.args > 0 /\ data.default.type # "None"
       THEN ReadFirstArg(it, data)
       ELSE [tokens |-> <<>>, it |-> it, error |-> NoError], LAMBDA first :
  Bind(IF first.error # NoError THEN first
       ELSE ReadArgs(first.it, data.args - Len(first.tokens), first.tokens), LAMBDA rest :
    IF rest.error # NoError THEN [it |-> rest.it, error |-> rest.error]
    ELSE Bind(_replace_parameters(data.body, rest.tokens), LAMBDA temp :
           IF temp.error # NoError THEN [it |-> rest.it, error |-> temp.error]
           ELSE [it |-> PushFront(temp.node.children, rest.it), error |-> NoError])))

(***************************************************************************)
(* Macro tables.  A table is a Python dict: a function from names to       *)
(* macros.  Tables are objects that several groups may share, so they live *)
(* in a heap (a sequence of tables) and a group's data refers to one by    *)
(* its index.  The data of a group is None (isset = FALSE) or the          *)
(* dictionary {'macros', 'copied'}.                                        *)
(***************************************************************************)
EmptyTable == [name \in {} |-> Macro(0, None, None)]
Put(table, name, macro) ==
  [k \in DOMAIN table \cup {name} |-> IF k = name THEN macro ELSE table[k]]

Data(macros, copied) == [isset |-> TRUE, macros |-> macros, copied |-> copied]
NoData == [isset |-> FALSE, macros |-> 0, copied |-> FALSE]

\* A slip: the level marks the table as its own without copying it
CheckMacrosShared(data, heap) ==
  [data |-> [data EXCEPT !.copied = TRUE], heap |-> heap]

\* _check_macros: the first definition of a level copies the table the level shares
_check_macros(data, heap) ==
  IF ~data.copied
  THEN [data |-> Data(Len(heap) + 1, TRUE), heap |-> Append(heap, heap[data.macros])]
  ELSE [data |-> data, heap |-> heap]

\* _check_macros(); macros[name] = macro
SetMacro(data, heap, name, macro) ==
  Bind(_check_macros(data, heap), LAMBDA c :
    [data |-> c.data, heap |-> [c.heap EXCEPT ![c.data.macros] = Put(@, name, macro)]])

(***************************************************************************)
(* _process, the rule of the macro engine.  n is the node taken from the   *)
(* queue, children the rest of the queue, cur the data of n.parent, up the *)
(* data of n.parent.parent.  The result is the node the rule returns       *)
(* (None to drop n), the queue, the data of n.parent and the heap.         *)
(***************************************************************************)
Processed(ret, children, data, heap, error) ==
  [ret |-> ret, children |-> children, data |-> data, heap |-> heap, error |-> error]
Raise(error, data, heap) == Processed(None, <<>>, data, heap, error)

DefineCommands == {"newcommand", "renewcommand", "providecommand"}
DefineEnvironments == {"newenvironment", "renewenvironment"}

\* str(temp), without the braces of a BracketNode
EnvName(temp) ==
  LET name == str(temp)
  IN  IF temp.type = "BracketNode" THEN Slice(name, 1, Len(name) - 1) ELSE name

\* macros[name] = data, at the level of n: the rule drops n and returns None
Defined(children, set) == Processed(None, children, set.data, set.heap, NoError)

\* A slip: every definition command registers the macro, whatever the table holds
ProcessNewcommandAlways(n, children, data, heap) ==
  Bind(_read_command_name(children), LAMBDA nm :
    IF nm.error # NoError THEN Raise(nm.error, data, heap)
    ELSE Bind(_get_bracket_args(nm.it), LAMBDA ba :
           IF ba.error # NoError THEN Raise(ba.error, data, heap)
           ELSE Defined(ba.it, SetMacro(data, heap, nm.name,
                                        Macro(ba.args, ba.default,
                                              take(GroupNode, ba.temp))))))

ProcessNewcommand(n, children, data, heap) ==
  Bind(_read_command_name(children), LAMBDA nm :
    IF nm.error # NoError THEN Raise(nm.error, data, heap)
    ELSE Bind(_get_bracket_args(nm.it), LAMBDA ba :
           IF ba.error # NoError THEN Raise(ba.error, data, heap)
           ELSE IF n.data = "newcommand" /\ nm.name \in DOMAIN heap[data.macros]
           THEN Raise(ErrNewcommand, data, heap)
           ELSE IF n.data # "providecommand" \/ nm.name \notin DOMAIN heap[data.macros]
           THEN Defined(ba.it, SetMacro(data, heap, nm.name,
                                        Macro(ba.args, ba.default,
                                              take(GroupNode, ba.temp))))
           ELSE Processed(None, ba.it, data, heap, NoError)))

ProcessNewenvironment(n, children, data, heap) ==
  Bind(read_next(children, TRUE), LAMBDA r1 :
    IF r1.error # NoError THEN Raise(r1.error, data, heap)
    ELSE IF str_raises(r1.n) THEN Raise(ErrFloat, data, heap)
    ELSE Bind(EnvName(r1.n), LAMBDA name :
         Bind(_get_bracket_args(r1.it), LAMBDA ba :
           IF ba.error # NoError THEN Raise(ba.error, data, heap)
           ELSE Bind(read_next(ba.it, TRUE), LAMBDA r2 :
                  IF r2.error # NoError THEN Raise(r2.error, data, heap)
                  ELSE IF n.data = "newenvironment" /\ name \in DOMAIN heap[data.macros]
                  THEN Raise(ErrNewenvironment, data, heap)
                  ELSE Bind(SetMacro(data, heap, name,
                                     Macro(ba.args, ba.default, take(GroupNode, ba.temp))),
                            LAMBDA set1 :
                         Defined(r2.it, SetMacro(set1.data, set1.heap, "end" \o name,
                                                 Macro(0, None,
                                                       take(GroupNode, r2.n)))))))))

ProcessInvocation(children, macro, data, heap) ==
  Bind(_expand_macro(children, macro), LAMBDA e :
    IF e.error # NoError THEN Raise(e.error, data, heap)
    ELSE Processed(None, e.it, data, heap, NoError))

\* A slip: \end{name} looks the name up without the prefix `end'
ProcessBeginEndSameName(n, children, data, heap) ==
  Bind(read_next(children, TRUE), LAMBDA r :
    IF r.error # NoError THEN Raise(r.error, data, heap)
    ELSE IF str_raises(r.n) THEN Raise(ErrFloat, data, heap)
    ELSE Bind(EnvName(r.n), LAMBDA name :
           IF name \in DOMAIN heap[data.macros]
           THEN ProcessInvocation(r.it, heap[data.macros][name], data, heap)
           ELSE Processed(n, <<r.n>> \o r.it, data, heap, NoError)))

ProcessBeginEnd(n, children, data, heap) ==
  Bind(read_next(children, TRUE), LAMBDA r :
    IF r.error # NoError THEN Raise(r.error, data, heap)
    ELSE IF str_raises(r.n) THEN Raise(ErrFloat, data, heap)
    ELSE Bind(IF n.data = "end" THEN "end" \o EnvName(r.n) ELSE EnvName(r.n), LAMBDA name :
           IF name \in DOMAIN heap[data.macros]
           THEN ProcessInvocation(r.it, heap[data.macros][name], data, heap)
           ELSE Processed(n, <<r.n>> \o r.it, data, heap, NoError)))

\* The branches of the rule for a node n whose parent has the data `data'
Dispatch(n, children, data, heap) ==
  IF n.type # "CommandNode" THEN Processed(n, children, data, heap, NoError)
  ELSE IF n.data \in DefineCommands
  THEN ProcessNewcommand(n, children, data, heap)
  ELSE IF n.data \in DefineEnvironments
  THEN ProcessNewenvironment(n, children, data, heap)
  ELSE IF n.data \in DOMAIN heap[data.macros]
  THEN ProcessInvocation(children, heap[data.macros][n.data], data, heap)
  ELSE IF n.data \in {"begin", "end"}
  THEN ProcessBeginEnd(n, children, data, heap)
  ELSE Processed(n, children, data, heap, NoError)

_process(n, children, cur, up, heap) ==
  IF ~n.parent THEN Processed(n, children, cur, heap, NoError)
  ELSE IF ~cur.isset /\ ~up.isset THEN Raise(ErrType, cur, heap)
  ELSE Dispatch(n, children, IF cur.isset THEN cur ELSE Data(up.macros, FALSE), heap)

(***************************************************************************)
(* clear_data: GroupNode.filter under the rule _clear_data, in place.      *)
(***************************************************************************)
\* What a processed group holds in its data slot: the dictionary {'macros', 'copied'}
DataSet == "{'macros', 'copied'}"

RECURSIVE ClearFilter(_, _, _)
ClearFilter(node, children, level) ==
  IF level > MAX_RECURSE_LEVEL THEN [node |-> None, error |-> ErrRecursion]
  ELSE IF children = <<>> THEN [node |-> node, error |-> NoError]
  ELSE LET n == Head(children)
       IN  IF IsGroup(n)
           THEN LET sub == ClearFilter([n EXCEPT !.data = "", !.children = <<>>],
                                       n.children, level + 1)
                IN  IF sub.error # NoError THEN sub
                    ELSE ClearFilter(add(node, sub.node), Tail(children), level)
           ELSE ClearFilter(add(node, n), Tail(children), level)

clear_data(root) ==
  ClearFilter([root EXCEPT !.data = "", !.children = <<>>], root.children, 0)

(***************************************************************************)
(* Node objects.  The operators above work on values.  GroupNode.copy and  *)
(* GroupNode.filter are about which objects a call changes, so here a tree *)
(* is a store of objects: o[id] holds the fields of the node with that id, *)
(* the ids of its children and the id of its parent (0 is None).           *)
(***************************************************************************)
Object(node) == [node EXCEPT !.children = <<>>, !.parent = 0]

\* GroupNode.add
AddObject(o, group, child) ==
  [o EXCEPT ![group].children = Append(@, child), ![child].parent = group]

\* GroupNode.take
RECURSIVE AddObjects(_, _, _)
AddObjects(o, group, ids) ==
  IF ids = <<>> THEN o ELSE AddObjects(AddObject(o, group, Head(ids)), group, Tail(ids))
TakeObject(o, group, id) ==
  IF IsGroup(o[id]) THEN AddObjects(o, group, o[id].children) ELSE AddObject(o, group, id)

\* A slip: the copy of a leaf is the leaf
ClonedShared(o, id) == [o |-> o, id |-> id]

\* Node.copy, which is copy.copy(self): a new object with the fields of the old
Cloned(o, id) == [o |-> Append(o, o[id]), id |-> Len(o) + 1]

\* The objects of the tree of a node value, put after those of o
RECURSIVE Stored(_, _, _)
RECURSIVE StoredAll(_, _, _)
StoredAll(o, group, nodes) ==
  IF nodes = <<>> THEN o
  ELSE StoredAll(AddObject(Stored(o, Head(nodes), group), group, Len(o) + 1),
                 group, Tail(nodes))
Stored(o, node, parent) ==
  StoredAll(Append(o, [Object(node) EXCEPT !.parent = parent]), Len(o) + 1, node.children)

\* The node value of the tree of an object
RECURSIVE Value(_, _)
Value(o, id) ==
  [o[id] EXCEPT !.children = [k \in 1..Len(o[id].children) |-> Value(o, o[id].children[k])],
                !.parent = (o[id].parent # 0)]

\* The ids of the objects of the tree of an object, the root first
RECURSIVE PreOrder(_, _)
RECURSIVE PreOrderAll(_, _)
PreOrderAll(o, ids) ==
  IF ids = <<>> THEN <<>> ELSE PreOrder(o, Head(ids)) \o PreOrderAll(o, Tail(ids))
PreOrder(o, id) == <<id>> \o PreOrderAll(o, o[id].children)

\* read_next on a queue of objects
RECURSIVE ReadNextObject(_, _, _)
ReadNextObject(o, queue, error) ==
  IF queue = <<>>
  THEN [o |-> o, n |-> 0, it |-> <<>>,
        error |-> IF error THEN ErrEnd ELSE NoError]
  ELSE IF o[Head(queue)].type \in {"WhitespaceNode", "CommentNode"}
  THEN ReadNextObject(o, Tail(queue), error)
  ELSE IF o[Head(queue)].type = "TextNode" /\ Len(o[Head(queue)].data) > 1
  THEN [o |-> o \o <<[Object(TextNode(Slice(o[Head(queue)].data, 1, Len(o[Head(queue)].data))))
                        EXCEPT !.parent = o[Head(queue)].parent],
                      Object(TextNode(Slice(o[Head(queue)].data, 0, 1)))>>,
        n |-> Len(o) + 2, it |-> <<Len(o) + 1>> \o Tail(queue),
        error |-> NoError]
  ELSE [o |-> o, n |-> Head(queue), it |-> Tail(queue), error |-> NoError]

(***************************************************************************)
(* The filter functions of the repository, on objects.  Each gives the     *)
(* store and the queue it leaves, the id it returns (0 is None), the error *)
(* it raises, and `arg', the id of the argument whose copy _do_replace     *)
(* hands to n.parent.take (0 when it does not).                            *)
(***************************************************************************)
Rules == {"_clear_data", "_do_replace", "_remove_empty_brackets",
          "_capitalize_next_letter", "_fix_whitespace"}

Ruled(o, queue, ret) ==
  [o |-> o, queue |-> queue, ret |-> ret, arg |-> 0, error |-> NoError]
RuleRaised(o, error) ==
  [o |-> o, queue |-> <<>>, ret |-> 0, arg |-> 0, error |-> error]

\* str.upper and str.isalpha, on the ASCII letters
LowerCase == <<"a","b","c","d","e","f","g","h","i","j","k","l","m",
               "n","o","p","q","r","s","t","u","v","w","x","y","z">>
UpperCase == <<"A","B","C","D","E","F","G","H","I","J","K","L","M",
               "N","O","P","Q","R","S","T","U","V","W","X","Y","Z">>
upper(c) ==
  IF \E k \in 1..26 : LowerCase[k] = c
  THEN UpperCase[CHOOSE k \in 1..26 : LowerCase[k] = c]
  ELSE c
isalpha(c) == \E k \in 1..26 : c \in {LowerCase[k], UpperCase[k]}

\* _clear_data of ast.clear_data
ClearData(o, n, children) ==
  Ruled(IF IsGroup(o[n]) THEN [o EXCEPT ![n].data = ""] ELSE o, children, n)

\* _do_replace of demacro._replace_parameters
DoReplace(o, n, children, params) ==
  IF o[n].type # "ParameterNode" THEN Ruled(o, children, n)
  ELSE IF o[n].num_hashes = 1
  THEN IF ListIndex(params, o[n].param - 1) = 0 THEN RuleRaised(o, ErrIndex)
       ELSE [Ruled(o, children, 0) EXCEPT !.arg = params[ListIndex(params, o[n].param - 1)]]
  ELSE IF o[n].num_hashes % 2 # 0 THEN RuleRaised(o, ErrHashes)
  ELSE Ruled([o EXCEPT ![n].num_hashes = @ \div 2, ![n].float = TRUE], children, n)

\* _remove_empty_brackets of the tests
RemoveEmptyBrackets(o, n, children) ==
  IF o[n].type = "BracketNode" /\ o[n].children = <<>>
  THEN Ruled(o, children, 0)
  ELSE Ruled(o, children, n)

\* pre = GroupNode(); pre.take(TextNode("Introducing:")); pre.take(WhitespaceNode(' '));
\* n.parent.take(pre), after o
Introduce(o, parent) ==
  AddObjects(o \o <<[Object(GroupNode) EXCEPT !.children = <<Len(o) + 2, Len(o) + 3>>],
                    [Object(TextNode("Introducing:")) EXCEPT !.parent = Len(o) + 1],
                    [Object(WhitespaceNode(" ")) EXCEPT !.parent = Len(o) + 1]>>,
             parent, <<Len(o) + 2, Len(o) + 3>>)

\* _capitalize_next_letter of the tests, after its call of read_next gave r
Capitalized(r, parent) ==
  IF r.error # NoError THEN RuleRaised(r.o, r.error)
  ELSE IF r.o[r.n].type = "TextNode"
  THEN Ruled(Introduce(Append(r.o, [Object(TextNode(upper(r.o[r.n].data)))
                                      EXCEPT !.parent = parent]), parent),
             <<Len(r.o) + 1>> \o r.it, 0)
  ELSE Ruled(Introduce([r.o EXCEPT ![r.n].parent = parent], parent),
             <<r.n>> \o r.it, 0)
CapitalizeNextLetter(o, n, children) ==
  IF o[n].type = "CommandNode" /\ o[n].data = "upper"
  THEN Capitalized(ReadNextObject(o, children, TRUE), o[n].parent)
  ELSE Ruled(o, children, n)

\* _fix_whitespace of ast.fix_whitespace
FixWhitespace(o, n, children) ==
  IF /\ children # <<>>
     /\ o[n].type = "CommandNode" /\ isalpha(At(o[n].data, 0))
     /\ o[Head(children)].type = "TextNode" /\ isalpha(At(o[Head(children)].data, 0))
  THEN Ruled(Append(o, [Object(WhitespaceNode(" ")) EXCEPT !.parent = o[n].parent]),
             <<Len(o) + 1>> \o children, n)
  ELSE Ruled(o, children, n)

\* filter_func(n, children)
filter_func(rule, o, n, children, params) ==
  CASE rule = "_clear_data" -> ClearData(o, n, children)
    [] rule = "_do_replace" -> DoReplace(o, n, children, params)
    [] rule = "_remove_empty_brackets" -> RemoveEmptyBrackets(o, n, children)
    [] rule = "_capitalize_next_letter" -> CapitalizeNextLetter(o, n, children)
    [] rule = "_fix_whitespace" -> FixWhitespace(o, n, children)

(***************************************************************************)
(* The engine.  A call of Demacro.demacro runs GroupNode.filter with the   *)
(* rule _process; `stack' holds the activations of _do_filter, the root's  *)
(* first, each with the group it rebuilds (type, out), its queue and the   *)
(* data of the group.                                                      *)
(***************************************************************************)
VARIABLES
  src,      \* the text handed to to_ast
  ast,      \* what to_ast made of it
  heap,     \* the macro tables
  macros,   \* Demacro.macros: the engine's table (an index of heap)
  pc,       \* "idle", "parsed", "filter" (inside demacro), "done" or "error"
  stack,    \* the activations of _do_filter
  result,   \* the tree the last demacro call returned
  error,    \* the error the last call raised
  calls,    \* the number of demacro and add_macros calls so far
  objs,     \* the node objects of a tree, each with the ids of its children and parent
  frames,   \* the activations of GroupNode.copy and _do_filter on objs
  call,     \* the call of copy or filter in progress on objs
  log,      \* the calls of the filter function so far, in order
  gen,      \* the generator Tokenizer.tokenize returned
  deque,    \* the queue handed to read_next
  returned  \* what read_next returned

vars == <<src, ast, heap, macros, pc, stack, result, error, calls,
          objs, frames, call, log, gen, deque, returned>>

\* The variables of the engine and those of the single operations
engine == <<src, ast, heap, macros, stack, result, calls>>
tree == <<objs, frames, call, log>>
units == <<gen, deque, returned>>

Frame(type, queue, data) == [type |-> type, queue |-> queue, out |-> <<>>, data |-> data]
NoAst == [error |-> NoError, curr |-> None, depth |-> 0, root |-> None]

Top == stack[Len(stack)]
Table == heap[macros]

\* A slip: the engine takes the root's table when the call fails, too
FailKeepsRoot(e) ==
  /\ pc' = "error"
  /\ error' = e
  /\ stack' = <<>>
  /\ result' = None
  /\ heap' = <<heap[IF stack = <<>> THEN macros ELSE stack[1].data.macros]>>
  /\ macros' = 1

\* The exception leaves demacro: the activations are gone and the engine keeps its table.
Fail(e) ==
  /\ pc' = "error"
  /\ error' = e
  /\ stack' = <<>>
  /\ result' = None
  /\ heap' = <<heap[macros]>>
  /\ macros' = 1

\* Concatenation of a sequence of strings
RECURSIVE Cat(_)
Cat(ss) == IF ss = <<>> THEN "" ELSE Head(ss) \o Cat(Tail(ss))

\* All concatenations of at most n elements of the set S of strings
RECURSIVE Strings(_, _)
Strings(S, n) ==
  IF n = 0 THEN {""}
  ELSE LET shorter == Strings(S, n - 1)
       IN  shorter \cup {x \o c : x \in shorter, c \in S}

(***************************************************************************)
(* Inputs.                                                                 *)
(***************************************************************************)
MaxLen == 4
MaxFrags == 3

\* Source texts for to_ast: every text of at most MaxLen of these characters
Alphabet == {"\\", "{", "}", "%", "#", "1", "a", " ", "\n"}
ParseInputs == Strings(Alphabet, MaxLen)

\* Texts without a definition command
PlainFrags == {"\\begin", "\\end", " ", "{x}", "ab", "%c\n", "\\foo", "{"}
PlainInputs == Strings(PlainFrags, MaxFrags)

\* A macro that invokes itself directly: the expansion leaves the queue as it was
SelfInput == "\\newcommand{\\a}{\\a}\\a"
\* Macros that invoke themselves through another macro or inside a group
LoopInputs ==
  {"\\newcommand{\\a}{\\b}\\newcommand{\\b}{\\a}\\a",
   "\\newcommand{\\a}{{\\a}}\\a"}
\* and macros that invoke other macros only
ChainInputs ==
  {"\\newcommand{\\a}{{\\b}}\\newcommand{\\b}{x}\\a",
   "\\newcommand{\\a}{\\b\\b}\\newcommand{\\b}{{x}}{\\a}"}

\* Sequences of at most n elements of S
Seqs(S, n) == UNION {[1..k -> S] : k \in 0..n}

MaxArgs == 2
MaxPieces == 2

(* Invocations of a macro \t without a default.  A body is a sequence of    *)
(* pieces: a literal, the 0-argument macro \u, a parameter #k, or the      *)
(* group {#1}; `out' is what the piece stands for in the output, given the *)
(* contents of the arguments.  An argument is written as a group or as one *)
(* character; `content' is what it contributes.                            *)
Piece(text, k, before, out, after) ==
  [src |-> text, k |-> k, before |-> before, out |-> out, after |-> after]
Pieces(n) ==
  {Piece("<", 0, "", "<", ""), Piece("\\u", 0, "", "U", "")}
    \cup {Piece("#" \o str_int(k), k, "", "", "") : k \in 1..n}
    \cup (IF n >= 1 THEN {Piece("{#1}", 1, "{", "", "}")} ELSE {})
PieceOut(p, contents) ==
  p.before \o (IF p.k = 0 THEN p.out ELSE contents[p.k]) \o p.after
Arg(text, content) == [src |-> text, content |-> content]
ArgForms == {Arg(" z", "z"), Arg("{\\u v}", "U v")}
Tails == {"!"}

Case(text, expected) == [src |-> text, expected |-> expected]

InvokeCase(n, body, args, tail) ==
  Case("\\newcommand{\\u}{U}\\newcommand{\\t}[" \o str_int(n) \o "]{"
         \o Cat([i \in 1..Len(body) |-> body[i].src]) \o "}\\t"
         \o Cat([i \in 1..n |-> args[i].src]) \o tail,
       Cat([i \in 1..Len(body) |->
              PieceOut(body[i], [j \in 1..n |-> args[j].content])]) \o tail)
InvokeCases ==
  UNION {{InvokeCase(n, body, args, tail) :
            body \in Seqs(Pieces(n), MaxPieces), args \in [1..n -> ArgForms], tail \in Tails}
         : n \in 0..MaxArgs}

(* Invocations of a macro \t with n arguments and a default for the first. *)
(* `opt' is the bracketed first argument of the invocation, or nothing.    *)
Defaults == {Arg("d", "d"), Arg("{d e}", "d e")}
Opts == {Arg("[x]", "x"), Arg("[{x y}]", "x y"), Arg("[xy]", "xy"), Arg("[x y]", "xy")}
NoOpt == Arg("", "")
\* What follows the invocation: it is left in the queue when there is no bracket.
Following == {Arg("", ""), Arg("!", "!"), Arg("{w}", "{w}")}

DefaultCase(n, default, opt, second, tail) ==
  Case("\\newcommand{\\t}[" \o str_int(n) \o "][" \o default.src \o "]{<#1"
         \o (IF n = 2 THEN "=#2" ELSE "") \o ">}\\t" \o opt.src
         \o (IF n = 2 THEN second.src ELSE "") \o tail.src,
       "<" \o (IF opt = NoOpt THEN default.content ELSE opt.content)
         \o (IF n = 2 THEN "=" \o second.content ELSE "") \o ">" \o tail.content)
DefaultCases ==
  {DefaultCase(1, default, opt, NoOpt, tail) :
     default \in Defaults, opt \in Opts \cup {NoOpt}, tail \in Following}
  \cup {DefaultCase(2, default, opt, second, tail) :
          default \in Defaults, opt \in Opts \cup {NoOpt},
          second \in {Arg("{w}", "w"), Arg("!", "!")}, tail \in Following}

(* A macro \a defined by `first' (or not at all) and then again by         *)
(* `second', at the same level or inside a group, and invoked `uses' times *)
(* after the second definition and once after the group.                   *)
Definition(command, name, body) == "\\" \o command \o "{\\" \o name \o "}{" \o body \o "}"
RECURSIVE Repeat(_, _)
Repeat(text, k) == IF k = 0 THEN "" ELSE text \o Repeat(text, k - 1)
MaxUses == 2

RedefineSrc(first, second, grouped, uses) ==
  (IF first = "" THEN "" ELSE Definition(first, "a", "x"))
    \o (IF grouped THEN "{" ELSE "")
    \o Definition(second, "a", "y") \o Repeat("\\a", uses)
    \o (IF grouped THEN "}\\a" ELSE "")
RedefineSrcs ==
  {RedefineSrc(first, second, grouped, uses) :
     first \in DefineCommands \cup {""}, second \in DefineCommands,
     grouped \in BOOLEAN, uses \in 1..MaxUses}

(* Definitions inside a group: \a or the environment e is defined (or not) *)
(* at the top, redefined in a group or in a group of that group, and used  *)
(* in the group, in a group nested in it, and after it.                    *)
ScopeNames == {"macro", "environment"}
ScopeOuter(kind) ==
  IF kind = "macro" THEN "\\newcommand{\\a}{x}" ELSE "\\newenvironment{e}{x}{w}"
ScopeInner(kind) ==
  IF kind = "macro" THEN "\\renewcommand{\\a}{y}" ELSE "\\renewenvironment{e}{y}{z}"
ScopeUse(kind) == IF kind = "macro" THEN "\\a" ELSE "\\begin{e}\\end{e}"
ScopeOuterOut(kind) == IF kind = "macro" THEN "x" ELSE "xw"
ScopeInnerOut(kind) == IF kind = "macro" THEN "y" ELSE "yz"

ScopeCase(kind, outer, deep) ==
  LET out == IF outer THEN ScopeOuterOut(kind) ELSE ScopeUse(kind)
  IN  IF deep
      THEN Case((IF outer THEN ScopeOuter(kind) ELSE "") \o "{{" \o ScopeInner(kind)
                  \o ScopeUse(kind) \o "}" \o ScopeUse(kind) \o "}" \o ScopeUse(kind),
                "{{" \o ScopeInnerOut(kind) \o "}" \o out \o "}" \o out)
      ELSE Case((IF outer THEN ScopeOuter(kind) ELSE "") \o "{" \o ScopeInner(kind)
                  \o ScopeUse(kind) \o "{" \o ScopeUse(kind) \o "}}" \o ScopeUse(kind),
                "{" \o ScopeInnerOut(kind) \o "{" \o ScopeInnerOut(kind) \o "}}" \o out)
ScopeCases ==
  {ScopeCase(kind, outer, deep) : kind \in ScopeNames, outer \in BOOLEAN, deep \in BOOLEAN}

(* Environments: e is defined with n arguments, a begin body and an end    *)
(* body, and used around some content.                                     *)
EnvBegins(n) ==
  IF n = 0 THEN {Piece("begin-", 0, "", "begin-", ""), Piece("\\u", 0, "", "U", "")}
  ELSE {Piece("begin-#1", 1, "begin-", "", ""), Piece("{#1}\\u", 1, "{", "", "}U")}
EnvEnds == {"end", "", "\\u"}
EnvContents == {"", " body ", "{b}"}
EnvCommands == {"newenvironment", "renewenvironment"}
EnvOut(text) == IF text = "\\u" THEN "U" ELSE text

EnvCase(command, n, begin, end, arg, content) ==
  Case("\\newcommand{\\u}{U}\\" \o command \o "{e}"
         \o (IF n = 0 THEN "" ELSE "[" \o str_int(n) \o "]")
         \o "{" \o begin.src \o "}{" \o end \o "}\\begin{e}"
         \o (IF n = 0 THEN "" ELSE arg.src) \o content \o "\\end{e}",
       PieceOut(begin, <<arg.content>>) \o content \o EnvOut(end))
EnvCases ==
  UNION {{EnvCase(command, n, begin, end, arg, content) :
            command \in EnvCommands, begin \in EnvBegins(n), end \in EnvEnds,
            arg \in {Arg("{X}", "X"), Arg("{\\u v}", "U v")}, content \in EnvContents}
         : n \in 0..1}

\* The environment of the specification's example, declared without an argument count
EnvExample == "\\newenvironment{e}{begin-#1}{end}\\begin{e}{X} body \\end{e}"
EnvExampleOut == "begin-X body end"

Srcs(cases) == {c.src : c \in cases}

(* Sessions: several calls on one engine.  A text defines macros at the    *)
(* top, defines them inside a group, uses them, or defines one and fails.  *)
MaxCalls == 3
DefineTop == "\\newcommand{\\a}{x}"
DefineInGroup == "{\\newcommand{\\b}{y}\\b}"
DefineBoth == "\\newenvironment{e}{<}{>}{\\renewcommand{\\a}{w}\\a}\\renewcommand{\\t}{z}"
DefineAndFail == "\\newcommand{\\c}{w}\\end"
UseAll == "\\a!\\b!\\t!\\begin{e}\\end{e}!\\c"
SessionInputs == {DefineTop, DefineInGroup, DefineBoth, DefineAndFail, UseAll}

\* The dictionaries handed to add_macros: one name each, with a body text
MacroSpec(name, body) == [name |-> name, body |-> body]
MacroSpecs == {MacroSpec("t", "T"), MacroSpec("a", "A")}

\* A macro with one argument between two literals
InvokeExample == Case("\\newcommand{\\test}[1]{Hello, #1!}\\test{world}", "Hello, world!")

\* A macro whose body is one parameter written with h hashes, and its use
MaxHashes == 8
HashInput(h) == "\\newcommand{\\a}{" \o Hashes(h) \o "1}\\a"
HashInputs == {HashInput(h) : h \in 2..MaxHashes}

\* A macro declared with n arguments whose body names parameter k, invoked
\* with two units after it
RangeInput(n, k) ==
  "\\newcommand{\\a}[" \o str_int(n) \o "]{<#" \o str_int(k) \o ">}\\a{x}{y}"
RangeInputs == {RangeInput(n, k) : n \in 0..MaxArgs, k \in 0..(MaxArgs + 1)}

Inputs ==
  HashInputs \cup RangeInputs \cup {InvokeExample.src, SelfInput} \cup PlainInputs \cup LoopInputs \cup ChainInputs \cup Srcs(InvokeCases) \cup Srcs(DefaultCases)
    \cup RedefineSrcs \cup Srcs(ScopeCases) \cup Srcs(EnvCases) \cup {EnvExample}

(***************************************************************************)
(* Actions.                                                                *)
(***************************************************************************)
NoCall == [op |-> "None", rule |-> "None", self |-> 0, should_copy |-> FALSE,
           params |-> <<>>, before |-> <<>>, ret |-> 0, prev |-> 0, count |-> 0,
           repeat |-> FALSE]
NoLog == <<>>
NoGen == [Generator("", <<>>) EXCEPT !.at = "None"]

NoTree == objs = <<>> /\ frames = <<>> /\ call = NoCall /\ log = NoLog
NoUnits == gen = NoGen /\ deque = <<>> /\ returned = None

Init ==
  /\ src = ""
  /\ ast = NoAst
  /\ heap = <<EmptyTable>>
  /\ macros = 1
  /\ pc = "idle"
  /\ stack = <<>>
  /\ result = None
  /\ error = NoError
  /\ calls = 0
  /\ NoTree
  /\ NoUnits

\* to_ast(text=src)
ToAst ==
  /\ pc = "idle"
  /\ ast' = to_ast(src)
  /\ pc' = "parsed"
  /\ UNCHANGED <<src, heap, macros, stack, result, error, calls>>
  /\ UNCHANGED <<tree, units>>

\* root = to_ast(text); engine.demacro(root), up to the rule's call on the root.
\* A root that has a parent (to_ast left a group open) makes _process look for
\* the data of the groups above it.
Demacro(text) ==
  LET a == to_ast(text)
  IN  /\ pc \in {"idle", "done", "error"}
      /\ a.error = NoError
      /\ src' = text
      /\ ast' = a
      /\ calls' = calls + 1
      /\ IF a.depth = 0
         THEN /\ pc' = "filter"
              /\ stack' = <<Frame(a.curr.type, a.curr.children, Data(macros, FALSE))>>
              /\ result' = None
              /\ error' = NoError
              /\ UNCHANGED <<heap, macros>>
         ELSE Fail(IF a.depth = 1 THEN ErrAttribute ELSE ErrType)
      /\ UNCHANGED <<tree, units>>

\* What the loop of _do_filter does with r, the value of the rule's call: raise
\* its error, descend into the group it returned, or add the node it returned
Continue(r) ==
  LET d == Len(stack)
      top == [Top EXCEPT !.queue = r.children, !.data = r.data]
  IN  IF r.error # NoError THEN Fail(r.error) /\ UNCHANGED <<src, ast, calls>>
      ELSE IF IsGroup(r.ret) /\ d > MAX_RECURSE_LEVEL
      THEN Fail(ErrRecursion) /\ UNCHANGED <<src, ast, calls>>
      ELSE /\ stack' =
                IF IsGroup(r.ret)
                THEN Append([stack EXCEPT ![d] = top],
                            Frame(r.ret.type, r.ret.children, NoData))
                ELSE IF r.ret.type # "None"
                THEN [stack EXCEPT ![d] = [top EXCEPT !.out = Append(@, [r.ret EXCEPT !.parent = TRUE])]]
                ELSE [stack EXCEPT ![d] = top]
           /\ heap' = r.heap
           /\ UNCHANGED <<src, ast, macros, pc, result, error, calls>>

\* One turn of the loop of _do_filter: take the next node, call the rule, and
\* either descend into the group it returned or add what it returned.
FilterStep ==
  /\ pc = "filter"
  /\ Top.queue # <<>>
  /\ Continue(_process(Head(Top.queue), Tail(Top.queue), Top.data,
                       IF Len(stack) > 1 THEN stack[Len(stack) - 1].data ELSE NoData,
                       heap))
  /\ UNCHANGED <<tree, units>>

\* The group a finished activation returns
Rebuilt(frame) ==
  [Node(frame.type, IF frame.data.isset THEN DataSet ELSE "") EXCEPT !.children = frame.out]

\* _do_filter returns to the activation below it, which adds the group
FilterReturn ==
  /\ pc = "filter"
  /\ Top.queue = <<>>
  /\ Len(stack) > 1
  /\ LET d == Len(stack)
     IN  stack' = [SubSeq(stack, 1, d - 1) EXCEPT ![d - 1].out =
                     Append(@, [Rebuilt(Top) EXCEPT !.parent = TRUE])]
  /\ UNCHANGED <<src, ast, heap, macros, pc, result, error, calls>>
  /\ UNCHANGED <<tree, units>>

\* A slip: the engine keeps the table it had
EngineMacros == macros

\* root.data['macros'] at the end of the filter
RootMacros == stack[1].data.macros

\* self.macros = root.data['macros']; return clear_data(root)
DemacroReturn ==
  /\ pc = "filter"
  /\ Top.queue = <<>>
  /\ Len(stack) = 1
  /\ LET c == clear_data(Rebuilt(Top))
     IN  IF c.error # NoError THEN Fail(c.error)
         ELSE /\ heap' = <<heap[RootMacros]>>
              /\ macros' = 1
              /\ result' = c.node
              /\ pc' = "done"
              /\ error' = NoError
              /\ stack' = <<>>
  /\ UNCHANGED <<src, ast, calls>>
  /\ UNCHANGED <<tree, units>>

\* The macro add_macros builds from the value v of a dictionary entry
BuiltMacro(v) ==
  Macro(IF "args" \in DOMAIN v THEN v.args ELSE 0,
        IF "default" \in DOMAIN v
        THEN _extract_optional_argument(to_ast(v.default).curr)
        ELSE None,
        take(GroupNode, to_ast(v.body).curr))

\* engine.add_macros({v.name: v}, replace): the engine's table is changed in place
AddMacros(v, replace) ==
  /\ pc \in {"idle", "done", "error"}
  /\ calls < MaxCalls
  /\ to_ast(v.body).error = NoError
  /\ calls' = calls + 1
  /\ heap' = IF replace \/ v.name \notin DOMAIN Table
             THEN [heap EXCEPT ![macros] = Put(@, v.name, BuiltMacro(v))]
             ELSE heap
  /\ UNCHANGED <<src, ast, macros, pc, stack, result, error>>
  /\ UNCHANGED <<tree, units>>

Next ==
  \/ \E text \in Inputs : calls = 0 /\ Demacro(text)
  \/ FilterStep
  \/ FilterReturn
  \/ DemacroReturn

Spec == Init /\ [][Next]_vars

\* The calls on the texts whose macros invoke themselves.  demacro is sequential
\* code: a call that can take a step takes it.
Running == FilterStep \/ FilterReturn \/ DemacroReturn
NextLoop ==
  \/ \E text \in LoopInputs \cup ChainInputs : calls = 0 /\ Demacro(text)
  \/ FilterStep
  \/ FilterReturn
  \/ DemacroReturn

FairSpec == Init /\ [][NextLoop]_vars /\ WF_vars(Running)

\* Sessions of at most MaxCalls calls of demacro and add_macros on one engine
NextSession ==
  \/ \E text \in SessionInputs : calls < MaxCalls /\ Demacro(text)
  \/ \E v \in MacroSpecs, replace \in BOOLEAN : AddMacros(v, replace)
  \/ FilterStep
  \/ FilterReturn
  \/ DemacroReturn

SpecSession == Init /\ [][NextSession]_vars

InitParse ==
  /\ src \in ParseInputs
  /\ ast = NoAst
  /\ heap = <<EmptyTable>>
  /\ macros = 1
  /\ pc = "idle"
  /\ stack = <<>>
  /\ result = None
  /\ error = NoError
  /\ calls = 0
  /\ NoTree
  /\ NoUnits

NextParse == ToAst

SpecParse == InitParse /\ [][NextParse]_vars

(***************************************************************************)
(* GroupNode.copy and GroupNode.filter on a store of objects, one step per *)
(* child copied and per call of the filter function.  An activation of     *)
(* copy holds the new group (node) and the children still to copy (queue); *)
(* an activation of _do_filter holds the group it rebuilds (node) and the  *)
(* queue of its children.  `into' is the group that takes the copy when    *)
(* the copy is the one _do_replace asked for.                              *)
(***************************************************************************)
Activation(op, node, queue, into) ==
  [op |-> op, node |-> node, queue |-> queue, into |-> into]
Active == frames[Len(frames)]
Popped == SubSeq(frames, 1, Len(frames) - 1)
Dequeued == [frames EXCEPT ![Len(frames)].queue = Tail(@)]

\* What a step leaves: the call goes on, returns ret, or raises an error
Runs(o, fs, lg) ==
  [objs |-> o, frames |-> fs, log |-> lg, pc |-> "called", error |-> NoError, ret |-> 0]
Returns(o, lg, ret) ==
  [objs |-> o, frames |-> <<>>, log |-> lg, pc |-> "returned", error |-> NoError, ret |-> ret]
Raises(o, lg, e) ==
  [objs |-> o, frames |-> <<>>, log |-> lg, pc |-> "raised", error |-> e, ret |-> 0]

Becomes(c, out) ==
  /\ call' = [c EXCEPT !.ret = out.ret]
  /\ objs' = out.objs
  /\ frames' = out.frames
  /\ log' = out.log
  /\ pc' = out.pc
  /\ error' = out.error
  /\ UNCHANGED <<engine, units>>

\* The log after the call filter_func(n, children) at the given level of
\* activations gave r: the node passed, the queue before and after the call,
\* what the call returned and, when that is a group, the children it then has
Logged(lg, n, children, depth, r) ==
  Append(lg, [n |-> n, depth |-> depth, before |-> children, after |-> r.queue,
              ret |-> r.ret,
              children |-> IF r.ret # 0 /\ IsGroup(r.o[r.ret])
                           THEN r.o[r.ret].children ELSE <<>>])

\* new = self.__class__(), and the activation that fills it
CopyInto(o, fs, lg, id, into) ==
  Runs(Append(o, Object(Node(o[id].type, ""))),
       Append(fs, Activation("copy", Len(o) + 1, o[id].children, into)), lg)

\* _do_filter(node, level) up to its loop; the activations below are those of
\* the levels 0 to level - 1
DoFilter(o, fs, lg, node) ==
  IF Len(fs) > MAX_RECURSE_LEVEL THEN Raises(o, lg, ErrRecursion)
  ELSE Runs([o EXCEPT ![node].children = <<>>],
            Append(fs, Activation("filter", node, o[node].children, 0)), lg)

\* obj = filter_func(obj, deque()); return _do_filter(obj)
FilterRoot(c, o, lg, obj) ==
  Bind(filter_func(c.rule, o, obj, <<>>, c.params), LAMBDA r :
    IF r.error # NoError THEN Raises(r.o, Logged(lg, obj, <<>>, 0, r), r.error)
    ELSE IF r.ret = 0 THEN Raises(r.o, Logged(lg, obj, <<>>, 0, r), ErrAttribute)
    ELSE DoFilter(r.o, <<>>, Logged(lg, obj, <<>>, 0, r), r.ret))

\* The call self.copy() or self.filter(rule, should_copy) begins
Begin(c) ==
  IF c.op = "copy" \/ c.should_copy
  THEN Becomes(c, CopyInto(objs, <<>>, NoLog, c.self, 0))
  ELSE Becomes(c, FilterRoot(c, objs, NoLog, c.self))

CallCopy ==
  /\ pc = "built"
  /\ Begin([call EXCEPT !.op = "copy", !.before = objs, !.count = 1])

CallFilter(rule, should_copy) ==
  /\ pc = "built"
  /\ Begin([call EXCEPT !.op = "filter", !.rule = rule, !.should_copy = should_copy,
                        !.before = objs, !.count = 1])

\* The same call on the same receiver once more
Again ==
  /\ pc = "returned"
  /\ call.count = 1
  /\ call.op = "filter"
  /\ Begin([call EXCEPT !.prev = call.ret, !.before = objs, !.count = 2, !.repeat = TRUE])

\* n = n.filter(rule); n = fix_whitespace(n): the tree a filter returned is filtered
FixWhitespaceNext ==
  /\ pc = "returned"
  /\ call.count = 1
  /\ call.op = "filter"
  /\ call.rule # "_fix_whitespace"
  /\ Begin([call EXCEPT !.self = call.ret, !.rule = "_fix_whitespace", !.should_copy = TRUE,
                        !.prev = call.ret, !.before = objs, !.count = 2])

\* new.add(c.copy()) for the next child c
CopyStep ==
  /\ pc = "called"
  /\ Active.op = "copy"
  /\ Active.queue # <<>>
  /\ IF IsGroup(objs[Head(Active.queue)])
     THEN Becomes(call, CopyInto(objs, Dequeued, log, Head(Active.queue), 0))
     ELSE Becomes(call, Bind(Cloned(objs, Head(Active.queue)), LAMBDA cl :
                     Runs(AddObject(cl.o, Active.node, cl.id), Dequeued, log)))

\* return new
CopyReturn ==
  /\ pc = "called"
  /\ Active.op = "copy"
  /\ Active.queue = <<>>
  /\ IF Len(frames) = 1
     THEN IF call.op = "copy"
          THEN Becomes(call, Returns(objs, log, Active.node))
          ELSE Becomes(call, FilterRoot(call, objs, log, Active.node))
     ELSE IF Popped[Len(Popped)].op = "copy"
     THEN Becomes(call, Runs(AddObject(objs, Popped[Len(Popped)].node, Active.node),
                             Popped, log))
     ELSE Becomes(call, Runs(TakeObject(objs, Active.into, Active.node), Popped, log))

\* What the loop of _do_filter does with r, the value of filter_func(n, children)
Filtered(n, r, fs, lg) ==
  IF r.error # NoError THEN Raises(r.o, lg, r.error)
  ELSE IF r.arg # 0
  THEN IF IsGroup(r.o[r.arg])
       THEN CopyInto(r.o, fs, lg, r.arg, r.o[n].parent)
       ELSE Bind(Cloned(r.o, r.arg), LAMBDA cl :
              Runs(AddObject(cl.o, r.o[n].parent, cl.id), fs, lg))
  ELSE IF r.ret = 0 THEN Runs(r.o, fs, lg)
  ELSE IF IsGroup(r.o[r.ret]) THEN DoFilter(r.o, fs, lg, r.ret)
  ELSE Runs(AddObject(r.o, Active.node, r.ret), fs, lg)

\* A slip: the node is taken from the right end of the queue
pop(children) ==
  [n |-> children[Len(children)], children |-> SubSeq(children, 1, Len(children) - 1)]

\* children.popleft(): the node and the queue it leaves
popleft(children) == [n |-> Head(children), children |-> Tail(children)]

\* filter_func(n, children) for the dequeued node n, and what the loop does with it
Ruling(q) ==
  Bind(filter_func(call.rule, objs, q.n, q.children, call.params), LAMBDA r :
    Filtered(q.n, r, [frames EXCEPT ![Len(frames)].queue = r.queue],
             Logged(log, q.n, q.children, Len(frames), r)))

\* One turn of the loop of _do_filter: n = filter_func(children.popleft(), children)
RuleStep ==
  /\ pc = "called"
  /\ Active.op = "filter"
  /\ Active.queue # <<>>
  /\ Becomes(call, Ruling(popleft(Active.queue)))

\* return node: the activation below adds the group, or filter returns it
GroupReturn ==
  /\ pc = "called"
  /\ Active.op = "filter"
  /\ Active.queue = <<>>
  /\ IF Len(frames) = 1
     THEN Becomes(call, Returns(objs, log, Active.node))
     ELSE Becomes(call, Runs(AddObject(objs, Popped[Len(Popped)].node, Active.node),
                             Popped, log))

(***************************************************************************)
(* Trees of brackets nested to a chosen depth.                             *)
(***************************************************************************)
MaxDepth == 258

\* The text x inside d pairs of braces, and the objects to_ast makes of it:
\* the root, the d brackets and the text node
RECURSIVE Times(_, _)
Times(text, k) ==
  IF k = 0 THEN ""
  ELSE Bind(Times(text, k \div 2), LAMBDA half :
         IF k % 2 = 0 THEN half \o half ELSE half \o half \o text)
NestedText(d) == Times("{", d) \o "x" \o Times("}", d)
NestedObjects(d) ==
  [id \in 1..(d + 2) |->
     IF id = d + 2 THEN [Object(TextNode("x")) EXCEPT !.parent = id - 1]
     ELSE [Object(IF id = 1 THEN GroupNode ELSE BracketNode)
             EXCEPT !.children = <<id + 1>>, !.parent = id - 1]]

Built(text, o, params) ==
  /\ src = text
  /\ objs = o
  /\ call = [NoCall EXCEPT !.self = 1, !.params = params]
  /\ frames = <<>>
  /\ log = NoLog
  /\ pc = "built"
  /\ error = NoError
  /\ ast = NoAst
  /\ heap = <<EmptyTable>>
  /\ macros = 1
  /\ stack = <<>>
  /\ result = None
  /\ calls = 0
  /\ NoUnits

\* The depths tried: the shallow ones and those around the limit
Depths == {d \in 0..MaxDepth : d <= MaxDepth - MAX_RECURSE_LEVEL \/ d >= MAX_RECURSE_LEVEL - 1}

InitDepth == \E d \in Depths : Built(NestedText(d), NestedObjects(d), <<>>)

NextDepth ==
  \/ CallCopy
  \/ CallFilter("_do_replace", TRUE)
  \/ CallFilter("_clear_data", FALSE)
  \/ CopyStep
  \/ CopyReturn
  \/ RuleStep
  \/ GroupReturn

SpecDepth == InitDepth /\ [][NextDepth]_vars

(***************************************************************************)
(* Calls of copy and filter on the trees of short texts, under each filter *)
(* function of the repository.  The arguments of _do_replace are a bracket *)
(* and a single character, as _expand_macro reads them.                    *)
(***************************************************************************)
MaxParts == 2

Parts == {"\\upper", "\\a", " ab", "{}", "#2", "##1", "{#1b}", "{\\upper ab}"}
FilterTexts == {Cat(ps) : ps \in Seqs(Parts, MaxParts)}

Args == <<add(BracketNode, TextNode("y")), TextNode("z")>>

\* The store o with the trees of the arguments after it, and their ids
RECURSIVE WithArgs(_, _, _)
WithArgs(o, ids, args) ==
  IF args = <<>> THEN [o |-> o, params |-> ids]
  ELSE WithArgs(Stored(o, Head(args), 0), Append(ids, Len(o) + 1), Tail(args))

InitFilter ==
  \E text \in FilterTexts :
    /\ to_ast(text).error = NoError
    /\ to_ast(text).depth = 0
    /\ Bind(WithArgs(Stored(<<>>, to_ast(text).curr, 0), <<>>, Args), LAMBDA w :
         Built(text, w.o, w.params))

NextFilter ==
  \/ CallCopy
  \/ \E rule \in Rules, should_copy \in BOOLEAN : CallFilter(rule, should_copy)
  \/ Again
  \/ FixWhitespaceNext
  \/ CopyStep
  \/ CopyReturn
  \/ RuleStep
  \/ GroupReturn

SpecFilter == InitFilter /\ [][NextFilter]_vars

(***************************************************************************)
(* Tokenizer.tokenize on short texts, with the six patterns of the default *)
(* tokenizer and with lists of other matchers.  The consumer is a for      *)
(* loop, which asks for the next token as long as there is one.            *)
(***************************************************************************)
TokenTexts == Strings({"a", "b", "#", "1", " "}, MaxFrags)

Matchers == {"a*", "a+", "ab", "b"}
MatcherLists ==
  {Patterns} \cup {<<p>> : p \in Matchers}
    \cup {<<p, q>> : p \in Matchers, q \in Matchers \ {"a*"}}

InitTokens ==
  /\ \E text \in TokenTexts, patterns \in MatcherLists :
       src = text /\ gen = Generator(text, patterns)
  /\ deque = <<>>
  /\ returned = None
  /\ pc = "idle"
  /\ error = NoError
  /\ ast = NoAst
  /\ heap = <<EmptyTable>>
  /\ macros = 1
  /\ stack = <<>>
  /\ result = None
  /\ calls = 0
  /\ NoTree

TokenizeStart ==
  /\ gen.at = "start"
  /\ gen' = Started(gen)
  /\ UNCHANGED <<engine, tree, pc, error, deque, returned>>

TokenizeLoop ==
  /\ gen.at = "loop"
  /\ gen' = Looped(gen)
  /\ UNCHANGED <<engine, tree, pc, error, deque, returned>>

TokenizeResume ==
  /\ gen.at \in {"nomatch", "token", "last"}
  /\ gen' = Resumed(gen)
  /\ UNCHANGED <<engine, tree, pc, error, deque, returned>>

NextTokens ==
  \/ TokenizeStart
  \/ TokenizeLoop
  \/ TokenizeResume

FairTokens == InitTokens /\ [][NextTokens]_vars /\ WF_vars(NextTokens)

(***************************************************************************)
(* read_next on queues of the children of a group.  A caller reads units   *)
(* one after the other, as _expand_macro does for the arguments; `call'    *)
(* keeps the queue as it was before the last call and the error flag.      *)
(***************************************************************************)
MaxQueue == 3

Units ==
  {[n EXCEPT !.parent = TRUE] :
     n \in {WhitespaceNode(" "), CommentNode("c\n"), TextNode("a"), TextNode("abc"),
            CommandNode("x"), ParameterNode(1, 1), add(BracketNode, TextNode("y"))}}

InitReadNext ==
  /\ deque \in Seqs(Units, MaxQueue)
  /\ returned = None
  /\ gen = NoGen
  /\ src = JoinStr(deque)
  /\ pc = "idle"
  /\ error = NoError
  /\ ast = NoAst
  /\ heap = <<EmptyTable>>
  /\ macros = 1
  /\ stack = <<>>
  /\ result = None
  /\ calls = 0
  /\ NoTree

\* n = read_next(it, error)
ReadNext ==
  /\ pc = "idle" \/ (pc = "returned" /\ returned # None)
  /\ \E flag \in BOOLEAN :
       /\ call' = [NoCall EXCEPT !.op = "read_next", !.params = <<flag>>, !.before = deque]
       /\ Bind(read_next(deque, flag), LAMBDA r :
            /\ deque' = r.it
            /\ returned' = r.n
            /\ error' = r.error
            /\ pc' = IF r.error = NoError THEN "returned" ELSE "raised")
  /\ UNCHANGED <<engine, objs, frames, log, gen>>

NextReadNext == ReadNext

SpecReadNext == InitReadNext /\ [][NextReadNext]_vars

(***************************************************************************)
(* Properties.                                                             *)
(***************************************************************************)
Returned == pc = "done"
Ended == pc \in {"done", "error"}
\* The call returned a tree whose text is `expected'
Gives(expected) == pc = "done" /\ ~str_raises(result) /\ str(result) = expected

\* C1: for every source text that to_ast accepts, the text of the node it returns
\* is the source text.
RoundTrip == pc = "parsed" /\ ast.error = NoError => str(ast.curr) = src

\* C2: an invocation of a macro with n arguments and no default is replaced by the
\* macro body with every #k replaced by the content of the k-th following unit (a
\* group gives its content without the braces), and invocations in the body and in
\* the arguments are expanded in turn.
MacroInvocation ==
  Ended => \A c \in InvokeCases \cup {InvokeExample} : src = c.src => Gives(c.expected)

MacroInvocationWitness ==
  LET c == InvokeCase(2, <<Piece("#2", 2, "", "", ""), Piece("{#1}", 1, "{", "", "}")>>,
                      <<Arg("{\\u v}", "U v"), Arg(" z", "z")>>, "!")
  IN  src = c.src /\ Gives("z{U v}!") /\ c \in InvokeCases

\* C3: a macro with a default takes the units between `[' and the closing `]' as
\* its first argument (a single group among them without its braces) when the
\* invocation is followed by `[', and otherwise takes the default and leaves what
\* follows the invocation in place, as its next argument or as content.
DefaultArgument ==
  Ended => \A c \in DefaultCases : src = c.src => Gives(c.expected)

DefaultArgumentWitness ==
  LET c == DefaultCase(2, Arg("{d e}", "d e"), NoOpt, Arg("{w}", "w"), Arg("!", "!"))
  IN  src = c.src /\ Gives("<d e=w>!") /\ c \in DefaultCases

\* The output of RedefineSrc(first, second, grouped, uses) when the call returns
RedefineOut(first, second, grouped, uses) ==
  LET body == IF first = "" \/ second = "renewcommand" THEN "y" ELSE "x"
  IN  IF grouped
      THEN "{" \o Repeat(body, uses) \o "}" \o (IF first = "" THEN "\\a" ELSE "x")
      ELSE Repeat(body, uses)

\* C4: where \a is already visible \newcommand fails with the duplicate error,
\* \renewcommand makes the later invocations use the new body and \providecommand
\* leaves the old body in use; where \a is not visible each of them defines it.
Redefinition ==
  Ended =>
    \A first \in DefineCommands \cup {""}, second \in DefineCommands,
       grouped \in BOOLEAN, uses \in 1..MaxUses :
      src = RedefineSrc(first, second, grouped, uses) =>
        IF first # "" /\ second = "newcommand"
        THEN pc = "error" /\ error = ErrNewcommand
        ELSE Gives(RedefineOut(first, second, grouped, uses))

RedefinitionWitness ==
  /\ src = RedefineSrc("newcommand", "providecommand", TRUE, 2)
  /\ Gives("{xx}x")

\* The texts of ScopeCases give the outputs expected of them
ScopeOutput == Ended => \A c \in ScopeCases : src = c.src => Gives(c.expected)
\* A step of the filter leaves the data and the table of the levels below the top
EnclosingTablesKept ==
  pc = "filter" /\ pc' = "filter" =>
    \A i \in 1..(Len(stack) - 1) :
      i <= Len(stack') /\ stack[i].data.isset =>
        /\ stack'[i].data = stack[i].data
        /\ heap'[stack'[i].data.macros] = heap[stack[i].data.macros]

\* C5: a definition made inside a group is used in the rest of that group and in
\* the groups nested in it and nowhere else, and while a group is being processed
\* the table of every enclosing level stays what it was.
Scoping == []ScopeOutput /\ [][EnclosingTablesKept]_vars

ScopingWitness ==
  /\ src = ScopeCase("macro", TRUE, FALSE).src
  /\ Gives("{y{y}}x")

\* C6 as stated: after \newenvironment{e}{begin-#1}{end}, the text
\* \begin{e}{X} body \end{e} expands to begin-X, the body, and end.
EnvironmentExample == Ended /\ src = EnvExample => Gives(EnvExampleOut)

\* C6, amended: with the argument count declared (\newenvironment{e}[1]{begin-#1}{end})
\* the text expands to begin-X, the body and end; in general \begin{name} is replaced
\* by the begin body with its arguments substituted and \end{name} by the end body.
EnvironmentExpansion == Ended => \A c \in EnvCases : src = c.src => Gives(c.expected)

EnvironmentExpansionWitness ==
  LET c == EnvCase("newenvironment", 1, Piece("begin-#1", 1, "begin-", "", ""), "end",
                   Arg("{X}", "X"), " body ")
  IN  src = c.src /\ Gives(EnvExampleOut) /\ c \in EnvCases

\* C7: on an engine without macros, a tree without definition commands (one that
\* to_ast closed) comes back from demacro with the same text.
NoMacroIdentity ==
  Ended /\ src \in PlainInputs /\ ast.depth = 0 => Gives(str(ast.curr))

\* C8: every call of demacro ends, with a tree or with an error.
Terminates == (pc = "filter") ~> Ended

\* The brace at offset i is the character of a one-character command
EscapedBrace(text, i) ==
  \E k \in 1..Len(tokenize(text)) :
    LET t == tokenize(text)[k]
    IN  t.pattern = "TOKEN_COMMAND" /\ t.start = i - 1 /\ t.end = i + 1
\* The character at offset i is part of a comment
InComment(text, i) ==
  \E k \in 1..Len(tokenize(text)) :
    LET t == tokenize(text)[k]
    IN  t.pattern = "TOKEN_COMMENT" /\ t.start <= i /\ i < t.end
\* The number of groups open after offset i, or -1 once a closing brace had none to close
RECURSIVE OpenAfter(_, _)
OpenAfter(text, i) ==
  IF i < 0 THEN 0
  ELSE LET before == OpenAfter(text, i - 1)
       IN  IF before < 0 THEN -1
           ELSE IF At(text, i) \notin {"{", "}"} \/ EscapedBrace(text, i) \/ InComment(text, i)
           THEN before
           ELSE IF At(text, i) = "{" THEN before + 1
           ELSE before - 1

\* C9: to_ast does not raise the unbalanced-brackets error when the braces of the
\* source are balanced, and raises it when a closing brace has no opening brace
\* before it; the braces that count are the ones outside comments that are not the
\* character of a one-character command.
BalancedBrackets ==
  pc = "parsed" =>
    /\ OpenAfter(src, Len(src) - 1) = 0 => ast.error # ErrUnbalanced
    /\ OpenAfter(src, Len(src) - 1) < 0 => ast.error = ErrUnbalanced

\* The text of the body of a macro of the table
BodyText(table, name) == str(table[name].body)
\* The names a session text defines at its top level, with the text of their bodies
TopDefinitions(text) ==
  CASE text = DefineTop -> [name \in {"a"} |-> "x"]
    [] text = DefineBoth ->
         [name \in {"e", "ende", "t"} |->
            IF name = "e" THEN "<" ELSE IF name = "ende" THEN ">" ELSE "z"]
    [] OTHER -> [name \in {} |-> ""]
\* A call that returns adds the top-level definitions of its text to the table
ReturnKeeps ==
  pc = "filter" /\ pc' = "done" =>
    LET top == TopDefinitions(src)
    IN  /\ DOMAIN Table' = DOMAIN Table \cup DOMAIN top
        /\ \A name \in DOMAIN Table' :
             BodyText(Table', name) =
               IF name \in DOMAIN top THEN top[name] ELSE BodyText(Table, name)
\* No step takes a name out of the engine's table
NamesKept == DOMAIN Table \subseteq DOMAIN Table'
\* The text of \name in the output of a call that started with the table
Use(table, name) == IF name \in DOMAIN table THEN BodyText(table, name) ELSE "\\" \o name
\* The output of a call on UseAll that started with the table
Expected(table) ==
  Use(table, "a") \o "!" \o Use(table, "b") \o "!" \o Use(table, "t") \o "!"
    \o (IF "e" \in DOMAIN table
        THEN BodyText(table, "e") \o BodyText(table, "ende")
        ELSE "\\begin{e}\\end{e}")
    \o "!" \o Use(table, "c")
\* A call on UseAll returns the text the engine's table gives
UsesTable ==
  pc = "filter" /\ pc' # "filter" /\ src = UseAll =>
    /\ pc' = "done"
    /\ ~str_raises(result')
    /\ str(result') = Expected(Table)

Nesting == (Len(src) - 1) \div 2

\* C11: copy and filter complete on a tree whose groups nest at most
\* MAX_RECURSE_LEVEL deep, and both raise the recursion-limit error on every
\* tree that nests deeper.
DepthCap ==
  pc \in {"returned", "raised"} =>
    IF Nesting <= MAX_RECURSE_LEVEL THEN pc = "returned"
    ELSE pc = "raised" /\ error = ErrRecursion

PowerOfTwo(k) == \E e \in 0..k : 2^e = k

\* C12: substituting a body halves the hash count h > 1 of each parameter
\* node, and the expansion raises the malformed-parameter error whenever h/2
\* is not a power of two.
NestedParameters ==
  \A h \in 2..MaxHashes :
    Ended /\ src = HashInput(h) =>
      IF h % 2 = 0 /\ PowerOfTwo(h \div 2)
      THEN /\ Returned
           /\ Len(result.children) = 1
           /\ result.children[1].type = "ParameterNode"
           /\ result.children[1].num_hashes = h \div 2
      ELSE pc = "error" /\ error = ErrHashes

\* The objects that existed when the call began are as they were
Untouched == SubSeq(objs, 1, Len(call.before)) = call.before

\* C13: a filter call with should_copy left at its default changes no object
\* of the receiver tree (children, payloads, hash counts, indices) and none of
\* the arguments handed to _do_replace, whether it returns or raises, and a
\* second call with the same arguments returns an equal tree.
FilterCopies ==
  call.op = "filter" /\ call.should_copy =>
    /\ Untouched
    /\ pc = "returned" /\ call.repeat =>
         Value(objs, call.ret) = Value(objs, call.prev)

\* A body with a doubled parameter and a parameter inside a bracket was
\* substituted twice: the result is a new tree that differs from the body
FilterCopiesWitness ==
  /\ src = "##1{#1b}"
  /\ call.op = "filter" /\ call.rule = "_do_replace" /\ call.should_copy
  /\ pc = "returned" /\ call.repeat
  /\ call.ret \notin {call.self, call.prev}
  /\ str(Value(objs, call.self)) = "##1{#1b}"
  /\ Value(objs, call.ret).children[1].num_hashes = 1
  /\ Value(objs, call.ret).children[2].children[1].data = "y"

Range(seq) == {seq[k] : k \in 1..Len(seq)}

\* Calls i < j of the filter function in the same activation of _do_filter with
\* no call of that activation between them
Consecutive(i, j) ==
  /\ i < j
  /\ log[i].depth = log[j].depth
  /\ \A k \in (i + 1)..(j - 1) : log[k].depth > log[i].depth

\* A call is passed the head of the queue the call before it in its activation
\* left, with the rest as lookahead; the first call of an activation is passed
\* the first child of the group the call before it returned
QueueOrder ==
  \A j \in 2..Len(log) :
    IF log[j].depth = log[j - 1].depth + 1
    THEN log[j - 1].children = <<log[j].n>> \o log[j].before
    ELSE \E i \in 1..(j - 1) :
           Consecutive(i, j) /\ log[i].after = <<log[j].n>> \o log[j].before

\* When filter has returned, every queue was emptied: the children of a
\* returned group were passed next, and then what the call left in its queue
Drained ==
  \A i \in 1..Len(log) :
    /\ log[i].children # <<>> => i < Len(log) /\ log[i + 1].depth = log[i].depth + 1
    /\ log[i].after # <<>> => \E j \in (i + 1)..Len(log) : Consecutive(i, j)

OncePassed == \A i, j \in 1..Len(log) : i # j => log[i].n # log[j].n

\* The nodes a call took off its lookahead queue
Removed(i) == Range(log[i].before) \ Range(log[i].after)
RemovedNotPassed == \A i, j \in 1..Len(log) : log[j].n \notin Removed(i)

\* The nodes of the returned tree, root first, and the results of the calls
Output == PreOrder(objs, call.ret)
Results == SelectSeq([k \in 1..Len(log) |-> log[k].ret], LAMBDA id : id # 0)
IsResult(id) == id \in Range(Results)

NoneAbsent == \A i \in 1..Len(log) : log[i].ret = 0 => log[i].n \notin Range(Output)

Ordering ==
  /\ QueueOrder
  /\ OncePassed
  /\ RemovedNotPassed
  /\ pc = "returned" => Drained /\ NoneAbsent

\* C14 as stated: the calls of the filter function follow the queues, and the
\* nodes of the returned tree are the results of the calls in call order.
FilterProtocol ==
  call.op = "filter" => Ordering /\ (pc = "returned" => Output = Results)

\* C14, amended: the calls of the filter function follow the queues, and the
\* results of the calls are, in call order, the nodes of the returned tree
\* apart from those the filter function itself added to a group.
FilterOrdering ==
  call.op = "filter" => Ordering /\ (pc = "returned" => SelectSeq(Output, IsResult) = Results)

\* Inside a bracket the function took the white space and the text off the
\* queue, pushed two new text nodes, which were passed next, and returned None
\* for the command; the bracket that follows was passed after all of these
FilterOrderingWitness ==
  /\ src = "{\\upper ab}{}"
  /\ call.op = "filter" /\ call.rule = "_capitalize_next_letter" /\ pc = "returned"
  /\ Len(log) = 6
  /\ log[2].children = <<log[3].n>> \o log[3].before
  /\ log[3].ret = 0 /\ Removed(3) = Range(log[3].before)
  /\ log[3].after = <<log[4].n, log[5].n>>
  /\ log[5].depth = 2 /\ log[6].depth = 1
  /\ str(Value(objs, call.ret)) = "{Introducing: Ab}{}"

\* The generator hands out a token: the step reaches one of the three yields
Yield == gen.at \in {"loop", "nomatch"} /\ gen'.at \in {"nomatch", "token", "last"}

\* The end of the last token handed out, and the position the scan had reached
\* when the no-match token before a match was cut
Covered == IF gen.yielded = NoToken THEN 0 ELSE gen.yielded.end
Scan == IF gen.yielded.pattern = "NoMatch" THEN gen.yielded.start ELSE Covered

Found(k, pos) == re_search(gen.patterns[k], gen.text, pos)

\* The token is the leftmost match of a matcher from the scan position, no
\* matcher has a match that starts before it, none listed earlier one that
\* starts with it
Leftmost(t) ==
  \E k \in 1..Len(gen.patterns) :
    /\ t = Found(k, Scan)
    /\ \A j \in 1..Len(gen.patterns) :
         \/ Found(j, Scan) = NoToken
         \/ Found(j, Scan).start > t.start
         \/ Found(j, Scan).start = t.start /\ j >= k

\* A no-match token is not empty, follows a matched token or starts the text,
\* and no matcher has a match that starts inside it
Unclaimed(t) ==
  /\ gen.yielded.pattern # "NoMatch"
  /\ t.start < t.end
  /\ \A j \in 1..Len(gen.patterns) :
       Found(j, t.start) = NoToken \/ Found(j, t.start).start >= t.end

Partition ==
  Yield => /\ gen'.yielded.start = Covered
           /\ gen'.yielded.start <= gen'.yielded.end
           /\ IF gen'.yielded.pattern = "NoMatch"
              THEN Unclaimed(gen'.yielded) ELSE Leftmost(gen'.yielded)

Exhausted == gen.at = "stop"

TokensInOrder == [][Partition]_vars /\ [](Exhausted => Covered = Len(gen.text))

\* C15: for any text and any list of matchers the tokens tokenize yields join
\* without gap or overlap from 0 to the end of the text, a matched token is
\* the leftmost match from the scan position with ties going to the matcher
\* listed first, the unclaimed text before it is one no-match token, and the
\* sequence is finite: the generator is exhausted after finitely many tokens.
TokenizerCoverage == TokensInOrder /\ <>Exhausted

\* C16: for every input to_ast accepts, an input with an unclosed opening brace
\* included, the node it returns is the root of the tree it built: it has no
\* parent, and the whole tree hangs below it.
ReturnsRoot ==
  pc = "parsed" /\ ast.error = NoError => ~ast.curr.parent /\ ast.curr = ast.root

\* The parameter nodes of a tree
RECURSIVE ParameterNodes(_)
ParameterNodes(n) ==
  IF n.type = "ParameterNode" THEN {n}
  ELSE UNION {ParameterNodes(n.children[k]) : k \in 1..Len(n.children)}

WellFormed(n) == PowerOfTwo(n.num_hashes) /\ n.param \in 1..9

\* C17: in every tree to_ast returns and in every tree demacro returns, each
\* parameter node has a hash count that is a power of two and an index from 1
\* to 9.
ParameterInvariant ==
  /\ pc = "parsed" /\ ast.error = NoError => \A n \in ParameterNodes(ast.curr) : WellFormed(n)
  /\ pc = "done" => \A n \in ParameterNodes(result) : WellFormed(n)

\* The first node of a queue that is neither white space nor a comment
Skipped(n) == n.type \in {"WhitespaceNode", "CommentNode"}
Significant(q) == {k \in 1..Len(q) : ~Skipped(q[k])}
First(q) == CHOOSE k \in Significant(q) : \A j \in Significant(q) : k <= j
From(q, k) == SubSeq(q, k, Len(q))

\* What a call on the queue q leaves in `returned' and `deque'
Split(n, rest) ==
  /\ returned.type = "TextNode" /\ returned.data = Slice(n.data, 0, 1)
  /\ deque # <<>> /\ Tail(deque) = rest
  /\ Head(deque).type = "TextNode" /\ Head(deque).data = Slice(n.data, 1, Len(n.data))
Taken(q, k) ==
  /\ pc = "returned"
  /\ IF q[k].type = "TextNode" /\ Len(q[k].data) > 1
     THEN Split(q[k], From(q, k + 1))
     ELSE returned = q[k] /\ deque = From(q, k + 1)
  /\ str(returned) \o JoinStr(deque) = JoinStr(From(q, k))
Missing(flag) ==
  IF flag THEN pc = "raised" /\ error = ErrEnd
  ELSE pc = "returned" /\ returned = None /\ deque = <<>>

\* C18: read_next skips the leading white space and comments of the queue and
\* returns the first other node, or the first character of a text node longer
\* than one character, leaving the rest of the text at the front of the queue,
\* so that the returned text followed by the queue's is the text of the queue
\* from that node on; with no such node it raises the unexpected-end error when
\* error is true and returns None when error is false.
ReadNextUnit ==
  call.op = "read_next" =>
    IF Significant(call.before) = {} THEN Missing(call.params[1])
    ELSE Taken(call.before, First(call.before))

\* The comment before the text "abc" was skipped and the text was split: "a"
\* was returned and "bc" is at the front of the queue, before the white space
ReadNextUnitWitness ==
  /\ call.op = "read_next" /\ pc = "returned"
  /\ src = "%c\nabc " /\ JoinStr(call.before) = src
  /\ Skipped(call.before[1]) /\ First(call.before) = 2
  /\ returned = TextNode("a")
  /\ Len(deque) = 2 /\ Head(deque).data = "bc" /\ deque[2] = call.before[3]

\* A step of a call of demacro
DemacroStep == (\E text \in SessionInputs : Demacro(text)) \/ Running

\* C19: a call of demacro that raises leaves the engine's table with the
\* entries and bodies it had before the call, without the definitions the call
\* had processed, and no step of a call changes the table the engine held when
\* the call started: the engine's table changes only when a call returns.
FailureKeepsTable == [][DemacroStep /\ pc' # "done" => Table' = Table]_vars

\* The call defined \c at the top level and then raised on the \end that
\* nothing follows; the engine still has the table of the calls before, and
\* \c is not in it
FailureKeepsTableWitness ==
  /\ pc = "error" /\ error = ErrEnd
  /\ src = DefineAndFail
  /\ calls = MaxCalls
  /\ DOMAIN Table = {"a", "e", "ende", "t"}

\* C20: when a body is substituted, a parameter with one hash whose index is 0
\* or greater than the number of arguments read for the invocation is never
\* replaced by an argument: the call raises an error.
OutOfRange ==
  \A n \in 0..MaxArgs, k \in 0..(MaxArgs + 1) :
    Ended /\ src = RangeInput(n, k) /\ (k = 0 \/ k > n) => pc = "error"

====
